---- MODULE Spec2Model ----
(***************************************************************************)
(* Model of print_tree_unicode.py: a recursive directory walk that prints  *)
(* one line per entry, annotating names that hold control or non-ASCII     *)
(* characters with their Unicode codepoints.                               *)
(*                                                                         *)
(* Text is a sequence of codepoints (naturals).  A filesystem is a         *)
(* sequence of nodes below an implicit root directory (node 0); a path is  *)
(* the sequence of names leading from the root to an entry.                *)
(***************************************************************************)
EXTENDS Integers, Sequences, FiniteSets, TLC

VARIABLES fs, stack, out, pc, caller, args, exc, envChanges

vars == <<fs, stack, out, pc, caller, args, exc, envChanges>>

\* ---------------------------------------------------------------- bounds

\* Entries below the root in a filesystem of Init / InitLink.
MaxNodes == 3
\* Longest entry name drawn by InitFmt.
MaxNameLen == 2
\* Cap on the recursion depth (frames on the stack); only a filesystem with
\* a directory link that leads back to an ancestor can reach it.
MaxDepth == 6
\* Changes the environment makes to the filesystem during one run (SpecRace).
MaxEnvChanges == 1

\* ------------------------------------------------------------------ text

BranchGlyph == <<9500, 9472, 9472, 32>>
LastGlyph == <<9492, 9472, 9472, 32>>
BarExtension == <<9474, 32, 32, 32>>
BlankExtension == <<32, 32, 32, 32>>
DirSuffix == <<47>>
PermissionDeniedText ==
    <<91, 80, 101, 114, 109, 105, 115, 115, 105, 111, 110, 32,
      68, 101, 110, 105, 101, 100, 93>>
FolderGlyph == <<128193, 32>>
LegendText ==
    <<76, 101, 103, 101, 110, 100, 58, 32, 70, 105, 108, 101, 115, 32, 119,
      105, 116, 104, 32, 115, 112, 101, 99, 105, 97, 108, 32, 85, 110, 105,
      99, 111, 100, 101, 32, 115, 104, 111, 119, 32, 97, 115, 32, 39, 110,
      97, 109, 101, 39, 32, 91, 85, 43, 88, 88, 88, 88, 32, 85, 43, 88, 88,
      88, 88, 32, 46, 46, 46, 93>>
\* The absolute path of the root argument, "/r".
RootText == <<47, 114>>
GitName == <<46, 103, 105, 116>>

\* Names of the entries of the filesystems of Init:
\* ".git", ".h", "a", "b", "c" followed by a zero-width space (U+200B).
TreeNames == {GitName, <<46, 104>>, <<97>>, <<98>>, <<99, 8203>>}

\* Characters of the names of InitFmt: U+001F, ', ., a, DEL (U+007F),
\* e-acute (U+00E9), zero-width space (U+200B), folder emoji (U+1F4C1).
FmtChars == {31, 39, 46, 97, 127, 233, 8203, 128193}

RECURSIVE SeqsUpTo(_, _)
SeqsUpTo(S, n) ==
    IF n = 0 THEN {<<>>}
    ELSE LET shorter == SeqsUpTo(S, n - 1)
         IN  shorter \cup {Append(s, c) : s \in shorter, c \in S}

FmtNames == SeqsUpTo(FmtChars, MaxNameLen) \ {<<>>}

\* ------------------------------------------------- formatting (pure)

\* One hexadecimal digit, upper case (format spec "X") or lower case (repr).
HexDigitUpper(d) == IF d < 10 THEN 48 + d ELSE 55 + d
HexDigitLower(d) == IF d < 10 THEN 48 + d ELSE 87 + d

RECURSIVE HexUpper(_)
HexUpper(n) ==
    IF n < 16 THEN <<HexDigitUpper(n)>>
    ELSE Append(HexUpper(n \div 16), HexDigitUpper(n % 16))

RECURSIVE ZeroPad(_, _)
ZeroPad(digits, width) ==
    IF Len(digits) >= width THEN digits ELSE ZeroPad(<<48>> \o digits, width)

RECURSIVE HexLowerFixed(_, _)
HexLowerFixed(n, width) ==
    IF width = 0 THEN <<>>
    ELSE Append(HexLowerFixed(n \div 16, width - 1), HexDigitLower(n % 16))

\* f"U+{cp:04X}" in both branches of the source.
char_to_codepoint(char) ==
    LET cp == char
    IN  IF cp < 256
        THEN <<85, 43>> \o ZeroPad(HexUpper(cp), 4)
        ELSE <<85, 43>> \o ZeroPad(HexUpper(cp), 4)

\* str.isprintable() of one character, for the characters the model draws:
\* controls, DEL, U+0080..U+00A0, the soft hyphen and the general-punctuation
\* spaces and format characters (U+2000..U+200F, U+2028..U+202F) are not.
IsPrintable(c) ==
    /\ c >= 32
    /\ c # 127
    /\ ~(c \in 128..160)
    /\ c # 173
    /\ ~(c \in 8192..8207)
    /\ ~(c \in 8232..8239)

ReprChar(c, quote) ==
    IF c = quote \/ c = 92 THEN <<92, c>>
    ELSE IF c = 9 THEN <<92, 116>>
    ELSE IF c = 10 THEN <<92, 110>>
    ELSE IF c = 13 THEN <<92, 114>>
    ELSE IF IsPrintable(c) THEN <<c>>
    ELSE IF c < 256 THEN <<92, 120>> \o HexLowerFixed(c, 2)
    ELSE IF c < 65536 THEN <<92, 117>> \o HexLowerFixed(c, 4)
    ELSE <<92, 85>> \o HexLowerFixed(c, 8)

RECURSIVE ReprBody(_, _)
ReprBody(name, quote) ==
    IF name = <<>> THEN <<>>
    ELSE ReprChar(Head(name), quote) \o ReprBody(Tail(name), quote)

\* repr() of a string: single quotes unless the string holds a single quote
\* and no double quote.
Repr(name) ==
    LET has(c) == \E k \in 1..Len(name) : name[k] = c
        quote == IF has(39) /\ ~has(34) THEN 34 ELSE 39
    IN  <<quote>> \o ReprBody(name, quote) \o <<quote>>

RECURSIVE JoinSpace(_)
JoinSpace(parts) ==
    IF parts = <<>> THEN <<>>
    ELSE IF Len(parts) = 1 THEN parts[1]
    ELSE parts[1] \o <<32>> \o JoinSpace(Tail(parts))

filename_with_codepoints(name) ==
    LET codepoints == [k \in 1..Len(name) |-> char_to_codepoint(name[k])]
    IN  Repr(name) \o <<32, 91>> \o JoinSpace(codepoints) \o <<93>>

\* Mutant: the bound of the non-ASCII test off by one (">= 127").
HasSpecialFrom127(entry) ==
    \E k \in 1..Len(entry) : entry[k] >= 127 \/ entry[k] < 32

HasSpecial(entry) ==
    \E k \in 1..Len(entry) : entry[k] > 127 \/ entry[k] < 32

\* The formatted name of lines 63-67, without prefix, connector and suffix.
EntryBody(entry) ==
    IF HasSpecial(entry) THEN filename_with_codepoints(entry) ELSE entry

\* Mutant: the last index compared with the length ("i == len(all_entries)").
IsLastOffByOne(i, n) == i = n

IsLast(i, n) == i = n - 1

Connector(is_last) == IF is_last THEN LastGlyph ELSE BranchGlyph

\* Mutant: the bar extension whatever the entry's position.
ExtensionAlwaysBar(is_last) == BarExtension

Extension(is_last) == IF is_last THEN BlankExtension ELSE BarExtension

\* --------------------------------------------------- listing (pure)

\* Python's order on strings: lexicographic by codepoint.
RECURSIVE StrLess(_, _)
StrLess(a, b) ==
    IF b = <<>> THEN FALSE
    ELSE IF a = <<>> THEN TRUE
    ELSE IF Head(a) # Head(b) THEN Head(a) < Head(b)
    ELSE StrLess(Tail(a), Tail(b))

RECURSIVE Insert(_, _)
Insert(x, s) ==
    IF s = <<>> THEN <<x>>
    ELSE IF StrLess(x, Head(s)) THEN <<x>> \o s
    ELSE <<Head(s)>> \o Insert(x, Tail(s))

\* Mutant: os.listdir's order kept ("sorted" left out).
Unsorted(s) == s

RECURSIVE Sorted(_)
Sorted(s) == IF s = <<>> THEN <<>> ELSE Insert(Head(s), Sorted(Tail(s)))

StartsWithDot(e) == Len(e) >= 1 /\ e[1] = 46

\* Lines 35-38.
FilterEntries(entries, ignore_hidden, ignore_git) ==
    LET notHidden(e) == ~StartsWithDot(e)
        notGit(e) == e # GitName
        afterHidden == IF ignore_hidden THEN SelectSeq(entries, notHidden)
                       ELSE entries
    IN  IF ignore_git THEN SelectSeq(afterHidden, notGit) ELSE afterHidden

\* Mutant: the directories left out of the print order.
AllEntriesFilesOnly(files, dirs) == files

AllEntries(files, dirs) == files \o dirs

\* Mutant: the recursive call made without the toggles, so with the defaults.
ChildFlagsDefault(ignore_hidden, ignore_git) == <<TRUE, TRUE>>

\* The toggles a recursive call receives.
ChildFlags(ignore_hidden, ignore_git) == <<ignore_hidden, ignore_git>>

\* ------------------------------------------------------- filesystem

Nodes(f) == 1..Len(f)

\* The node a link leads to; links lead to directories, never to links.
Deref(f, n) == IF n # 0 /\ f[n].kind = "link" THEN f[n].target ELSE n

IsDirNode(f, n) ==
    IF Deref(f, n) = 0 THEN TRUE ELSE f[Deref(f, n)].kind = "dir"

ChildNamed(f, d, name) ==
    LET hit == {i \in Nodes(f) : f[i].parent = d /\ f[i].name = name}
    IN  IF hit = {} THEN -1 ELSE CHOOSE i \in hit : TRUE

\* Path resolution, following links: the node a path names, -1 when none.
RECURSIVE NodeFrom(_, _, _)
NodeFrom(f, n, path) ==
    IF n = -1 THEN -1
    ELSE IF path = <<>> THEN Deref(f, n)
    ELSE IF ~IsDirNode(f, n) THEN -1
    ELSE NodeFrom(f, ChildNamed(f, Deref(f, n), Head(path)), Tail(path))

NodeAt(f, path) == NodeFrom(f, 0, path)

\* os.path.isdir(path)
IsDir(f, path) ==
    IF NodeAt(f, path) = -1 THEN FALSE ELSE IsDirNode(f, NodeAt(f, path))

RECURSIVE NamesInOrder(_, _, _)
NamesInOrder(f, d, i) ==
    IF i > Len(f) THEN <<>>
    ELSE IF f[i].parent = d THEN <<f[i].name>> \o NamesInOrder(f, d, i + 1)
    ELSE NamesInOrder(f, d, i + 1)

\* os.listdir(path) of a directory: its children's names, in directory order.
Listdir(f, path) == NamesInOrder(f, NodeAt(f, path), 1)

WellFormed(f) ==
    /\ \A i \in Nodes(f) :
          /\ f[i].parent < i
          /\ f[i].parent # 0 => f[f[i].parent].kind = "dir"
          /\ f[i].kind = "link" =>
                f[i].target = 0 \/ (f[i].target \in Nodes(f)
                                    /\ f[f[i].target].kind = "dir")
    /\ \A i, j \in Nodes(f) :
          /\ i < j => f[i].parent <= f[j].parent
          /\ (i # j /\ f[i].parent = f[j].parent) => f[i].name # f[j].name

MkNode(p, n, k, t) == [parent |-> p, name |-> n, kind |-> k, target |-> t]

\* ------------------------------------------------------------ output

\* One printed line.  text fields: prefix, connector, body, suffix; the line
\* as printed is their concatenation.  path (the entry, or the directory of
\* a "[Permission Denied]" line), group and recursed record what the code
\* did when it printed the line.
MkLine(kind, prefix, connector, body, suffix, path, group, recursed) ==
    [kind |-> kind, prefix |-> prefix, connector |-> connector, body |-> body,
     suffix |-> suffix, path |-> path, group |-> group, recursed |-> recursed]

Render(line) == line.prefix \o line.connector \o line.body \o line.suffix

PlainLine(kind, text) == MkLine(kind, <<>>, <<>>, text, <<>>, <<>>, "", FALSE)

\* Mutant: the placeholder printed without the prefix.
DeniedLineNoPrefix(prefix, path) ==
    MkLine("denied", <<>>, <<>>, PermissionDeniedText, <<>>, path, "", FALSE)

DeniedLine(prefix, path) ==
    MkLine("denied", prefix, <<>>, PermissionDeniedText, <<>>, path, "", FALSE)

NewFrame(root, prefix, ignore_hidden, ignore_git) ==
    [root |-> root, prefix |-> prefix, ignore_hidden |-> ignore_hidden,
     ignore_git |-> ignore_git, files |-> <<>>, dirs |-> <<>>, i |-> 0,
     at |-> "list"]

Top == stack[Len(stack)]
Pop(s) == SubSeq(s, 1, Len(s) - 1)
SetTop(s, fr) == [s EXCEPT ![Len(s)] = fr]

NoError == [raised |-> FALSE, at |-> <<>>]

\* ----------------------------------------------------------- actions

\* main(), lines 74-83: the header, a blank line, print_tree(root).
Main ==
    /\ pc = "start"
    /\ out' = out \o <<PlainLine("header", FolderGlyph \o RootText),
                       PlainLine("blank", <<>>)>>
    /\ stack' = <<NewFrame(<<>>, <<>>, TRUE, TRUE)>>
    /\ caller' = "main"
    /\ args' = [ignore_hidden |-> TRUE, ignore_git |-> TRUE]
    /\ pc' = "run"
    /\ UNCHANGED <<fs, exc, envChanges>>

\* print_tree(root, "", ignore_hidden, ignore_git) called directly.
CallPrintTree ==
    /\ pc = "start"
    /\ \E h \in BOOLEAN, g \in BOOLEAN :
          /\ stack' = <<NewFrame(<<>>, <<>>, h, g)>>
          /\ args' = [ignore_hidden |-> h, ignore_git |-> g]
    /\ caller' = "print_tree"
    /\ pc' = "run"
    /\ UNCHANGED <<fs, out, exc, envChanges>>

\* What a frame's return leaves behind: the caller's frame, or the end of
\* the outermost call.
AfterReturn ==
    /\ stack' = Pop(stack)
    /\ pc' = IF Len(stack) > 1 THEN pc
             ELSE IF caller = "main" THEN "returned" ELSE "done"

\* Lines 28-51 when os.listdir succeeds.
ListOk ==
    /\ pc = "run" /\ stack # <<>> /\ Top.at = "list"
    /\ IsDir(fs, Top.root)
    /\ LET entries == FilterEntries(Sorted(Listdir(fs, Top.root)),
                                    Top.ignore_hidden, Top.ignore_git)
           isdir(e) == IsDir(fs, Append(Top.root, e))
           isfile(e) == ~IsDir(fs, Append(Top.root, e))
       IN  stack' = SetTop(stack, [Top EXCEPT !.files = SelectSeq(entries, isfile),
                                              !.dirs = SelectSeq(entries, isdir),
                                              !.at = "loop"])
    /\ UNCHANGED <<fs, out, pc, caller, args, exc, envChanges>>

\* Lines 30-32: os.listdir raises PermissionError.
ListDenied ==
    /\ pc = "run" /\ stack # <<>> /\ Top.at = "list"
    /\ IsDir(fs, Top.root)
    /\ out' = Append(out, DeniedLine(Top.prefix, Top.root))
    /\ AfterReturn
    /\ UNCHANGED <<fs, caller, args, exc, envChanges>>

\* Mutant: every exception caught ("except Exception"), not PermissionError
\* alone.
ListErrorCaught ==
    /\ pc = "run" /\ stack # <<>> /\ Top.at = "list"
    /\ exc' = [raised |-> TRUE, at |-> Top.root]
    /\ out' = Append(out, DeniedLine(Top.prefix, Top.root))
    /\ AfterReturn
    /\ UNCHANGED <<fs, caller, args, envChanges>>

\* Line 29 raising anything else: the exception leaves every frame and main.
ListError ==
    /\ pc = "run" /\ stack # <<>> /\ Top.at = "list"
    /\ exc' = [raised |-> TRUE, at |-> Top.root]
    /\ stack' = <<>>
    /\ pc' = "crashed"
    /\ UNCHANGED <<fs, out, caller, args, envChanges>>

\* One iteration of the loop of lines 53-71.
PrintEntry ==
    /\ pc = "run" /\ stack # <<>> /\ Top.at = "loop"
    /\ LET all_entries == AllEntries(Top.files, Top.dirs)
           i == Top.i
       IN  /\ i < Len(all_entries)
           /\ LET entry == all_entries[i + 1]
                  is_last == IsLast(i, Len(all_entries))
                  path == Append(Top.root, entry)
                  is_dir == IsDir(fs, path)
                  group == IF i < Len(Top.files) THEN "files" ELSE "dirs"
                  line == MkLine("entry", Top.prefix, Connector(is_last),
                                 EntryBody(entry),
                                 IF is_dir THEN DirSuffix ELSE <<>>,
                                 path, group, is_dir)
                  flags == ChildFlags(Top.ignore_hidden, Top.ignore_git)
                  here == [Top EXCEPT !.i = i + 1]
              IN  /\ is_dir => Len(stack) < MaxDepth
                  /\ out' = Append(out, line)
                  /\ stack' =
                        IF is_dir
                        THEN Append(SetTop(stack, here),
                                    NewFrame(path, Top.prefix \o Extension(is_last),
                                             flags[1], flags[2]))
                        ELSE SetTop(stack, here)
    /\ UNCHANGED <<fs, pc, caller, args, exc, envChanges>>

\* The loop of line 53 is exhausted: print_tree returns.
Return ==
    /\ pc = "run" /\ stack # <<>> /\ Top.at = "loop"
    /\ Top.i >= Len(AllEntries(Top.files, Top.dirs))
    /\ AfterReturn
    /\ UNCHANGED <<fs, out, caller, args, exc, envChanges>>

\* main(), lines 84-85: a blank line and the legend.
MainEnd ==
    /\ pc = "returned"
    /\ out' = out \o <<PlainLine("blank", <<>>), PlainLine("legend", LegendText)>>
    /\ pc' = "done"
    /\ UNCHANGED <<fs, stack, caller, args, exc, envChanges>>

\* Another process replaces a file by an empty directory, or an empty
\* directory by a file, while the traversal runs.
EnvRetype ==
    /\ pc = "run"
    /\ envChanges < MaxEnvChanges
    /\ \E n \in Nodes(fs) :
          /\ fs[n].kind \in {"file", "dir"}
          /\ \A m \in Nodes(fs) : fs[m].parent # n /\ (fs[m].kind = "link" => fs[m].target # n)
          /\ fs' = [fs EXCEPT ![n].kind = IF fs[n].kind = "file" THEN "dir" ELSE "file"]
    /\ envChanges' = envChanges + 1
    /\ UNCHANGED <<stack, out, pc, caller, args, exc>>

\* ------------------------------------------------------ specifications

InitRun ==
    /\ stack = <<>>
    /\ out = <<>>
    /\ pc = "start"
    /\ caller = "none"
    /\ args = [ignore_hidden |-> TRUE, ignore_git |-> TRUE]
    /\ exc = NoError
    /\ envChanges = 0

\* Every tree of MaxNodes files and directories named from TreeNames.
Init ==
    /\ InitRun
    /\ \E par \in [1..MaxNodes -> 0..(MaxNodes - 1)] :
          /\ \A i \in 1..MaxNodes : par[i] < i
          /\ \A i, j \in 1..MaxNodes : i < j => par[i] <= par[j]
          /\ \E kd \in [1..MaxNodes -> {"file", "dir"}] :
                /\ \A i \in 1..MaxNodes : par[i] # 0 => kd[par[i]] = "dir"
                /\ \E nm \in [1..MaxNodes -> TreeNames] :
                      /\ fs = [i \in 1..MaxNodes |-> MkNode(par[i], nm[i], kd[i], 0)]
                      /\ WellFormed(fs)

\* A root holding one file or directory whose name is any of FmtNames.
InitFmt ==
    /\ InitRun
    /\ \E n \in FmtNames, k \in {"file", "dir"} : fs = <<MkNode(0, n, k, 0)>>

\* Trees in which the last entry is a link to the root or to a directory.
InitLink ==
    /\ InitRun
    /\ \E par \in [1..MaxNodes -> 0..(MaxNodes - 1)] :
          /\ \A i \in 1..MaxNodes : par[i] < i
          /\ \A i, j \in 1..MaxNodes : i < j => par[i] <= par[j]
          /\ \E kd \in [1..MaxNodes -> {"file", "dir", "link"}] :
                /\ kd[MaxNodes] = "link"
                /\ \A i \in 1..(MaxNodes - 1) : kd[i] # "link"
                /\ \A i \in 1..MaxNodes : par[i] # 0 => kd[par[i]] = "dir"
                /\ \E nm \in [1..MaxNodes -> {<<97>>, <<98>>}], t \in 0..(MaxNodes - 1) :
                      /\ fs = [i \in 1..MaxNodes |->
                                 MkNode(par[i], nm[i], kd[i], IF kd[i] = "link" THEN t ELSE 0)]
                      /\ WellFormed(fs)

\* One step of a traversal, whoever started it.
Traverse ==
    \/ ListOk
    \/ ListDenied
    \/ ListError
    \/ PrintEntry
    \/ Return

\* The program: main() and the traversal it starts.
Next ==
    \/ Main
    \/ Traverse
    \/ MainEnd

\* print_tree called directly, with any values of its two toggles.
NextCall ==
    \/ CallPrintTree
    \/ Traverse

\* The program while another process changes the filesystem.
NextRace == Next \/ EnvRetype

Spec == Init /\ [][Next]_vars
SpecCall == Init /\ [][NextCall]_vars
SpecFmt == InitFmt /\ [][Next]_vars
SpecLink == InitLink /\ [][Next]_vars
SpecRace == Init /\ [][NextRace]_vars

\* ------------------------------------------- vocabulary of the claims

Completed == stack = <<>> /\ pc \in {"returned", "done"}

EntryIdx == {k \in 1..Len(out) : out[k].kind = "entry"}
DeniedIdx == {k \in 1..Len(out) : out[k].kind = "denied"}

ParentPath(path) == SubSeq(path, 1, Len(path) - 1)
LastName(path) == path[Len(path)]
IsPrefixOf(p, q) == Len(p) <= Len(q) /\ SubSeq(q, 1, Len(p)) = p
IsProperPrefixOf(p, q) == Len(p) < Len(q) /\ SubSeq(q, 1, Len(p)) = p

RECURSIVE PathOf(_, _)
PathOf(f, n) ==
    IF n = 0 THEN <<>> ELSE Append(PathOf(f, f[n].parent), f[n].name)

AllPaths == {PathOf(fs, n) : n \in Nodes(fs)}

Printed(q) == \E k \in EntryIdx : out[k].path = q
DeniedPaths == {out[k].path : k \in DeniedIdx}

\* What the toggles given at the root omit.
OmittedName(name) ==
    \/ args.ignore_hidden /\ name[1] = 46
    \/ args.ignore_git /\ name = GitName

NoOmittedComponent(q) == \A k \in 1..Len(q) : ~OmittedName(q[k])

\* The extension a printed directory line gives its children's prefix.
ChildPrefix(line) ==
    line.prefix \o (IF line.connector = LastGlyph THEN BlankExtension
                    ELSE BarExtension)

\* ------------------------------------------------------------------ C1

\* C1 (as stated): when print_tree has returned from a run with the default
\* filters, the entry lines are, one line each and none twice, the entries
\* of the tree none of whose path components is filtered out.
C1_EveryUnfilteredEntryPrinted ==
    (Completed /\ args.ignore_hidden /\ args.ignore_git) =>
        LET reachable == {q \in AllPaths : NoOmittedComponent(q)}
        IN  /\ Cardinality(EntryIdx) = Cardinality(reachable)
            /\ \A q \in reachable :
                  Cardinality({k \in EntryIdx : out[k].path = q}) = 1

\* C1 (amended): when print_tree has returned from a run with the default
\* filters, the entry lines are, one line each and none twice, the entries
\* none of whose path components is filtered out and none of whose ancestor
\* directories (the root included) was denied listing.
C1_EveryListedUnfilteredEntryPrinted ==
    (Completed /\ args.ignore_hidden /\ args.ignore_git) =>
        LET listed == {q \in AllPaths :
                         /\ NoOmittedComponent(q)
                         /\ \A d \in DeniedPaths : ~IsProperPrefixOf(d, q)}
        IN  /\ Cardinality(EntryIdx) = Cardinality(listed)
            /\ \A q \in listed :
                  Cardinality({k \in EntryIdx : out[k].path = q}) = 1

\* A finished default run over a tree with a nested entry printed and a
\* denied directory that holds an unfiltered entry.
C1_Witness ==
    /\ Completed /\ args.ignore_hidden /\ args.ignore_git
    /\ Cardinality(EntryIdx) >= 2
    /\ \E d \in DeniedPaths, q \in AllPaths :
          d # <<>> /\ ParentPath(q) = d /\ NoOmittedComponent(q)

\* ------------------------------------------------------------------ C2

\* C2: among the lines of one directory's listing, no directory is printed
\* before a file, and two files, or two directories, appear in increasing
\* name order (the order of Python's string comparison).
C2_FilesFirstEachGroupSorted ==
    \A i, j \in EntryIdx :
        (i < j /\ ParentPath(out[i].path) = ParentPath(out[j].path)) =>
            LET di == IsDir(fs, out[i].path)
                dj == IsDir(fs, out[j].path)
            IN  /\ ~(di /\ ~dj)
                /\ (di = dj) => StrLess(LastName(out[i].path), LastName(out[j].path))

\* A finished listing of two files and a directory that os.listdir returned
\* with the directory first and the files in decreasing order.
C2_Witness ==
    /\ Completed
    /\ \E i, j, k \in EntryIdx :
          /\ i < j /\ j < k
          /\ out[i].path = <<fs[3].name>> /\ out[j].path = <<fs[2].name>>
          /\ out[k].path = <<fs[1].name>>
          /\ fs[1].kind = "dir" /\ fs[2].kind = "file" /\ fs[3].kind = "file"
          /\ fs[1].parent = 0 /\ fs[2].parent = 0 /\ fs[3].parent = 0
          /\ StrLess(fs[3].name, fs[2].name)

\* ------------------------------------------------------------------ C3

\* The unfiltered names of a directory's children.
VisibleNames(p) ==
    {LastName(q) : q \in {r \in AllPaths : ParentPath(r) = p
                                             /\ ~OmittedName(LastName(r))}}

\* The entry that is last in the files-then-directories order of p.
FinalName(p) ==
    LET dir(e) == IsDir(fs, Append(p, e))
        before(x, y) == IF dir(x) = dir(y) THEN StrLess(x, y) ELSE dir(y)
    IN  CHOOSE e \in VisibleNames(p) :
            \A x \in VisibleNames(p) \ {e} : before(x, e)

\* C3: a printed entry has the last connector exactly when it is the last
\* entry of its directory in files-then-directories order, and the branch
\* connector otherwise; once the run has returned, every listing that has
\* lines has exactly one last-connector line.
C3_LastConnectorOnlyOnLastEntry ==
    /\ \A k \in EntryIdx :
          /\ out[k].connector \in {LastGlyph, BranchGlyph}
          /\ (out[k].connector = LastGlyph) =
                (LastName(out[k].path) = FinalName(ParentPath(out[k].path)))
    /\ Completed =>
          \A k \in EntryIdx :
              Cardinality({m \in EntryIdx :
                              /\ ParentPath(out[m].path) = ParentPath(out[k].path)
                              /\ out[m].connector = LastGlyph}) = 1

\* A finished listing of three entries of one directory: two branch
\* connectors, then the last connector on a directory.
C3_Witness ==
    /\ Completed
    /\ \E i, j, k \in EntryIdx :
          /\ i < j /\ j < k
          /\ Len(out[i].path) = 1 /\ Len(out[j].path) = 1 /\ Len(out[k].path) = 1
          /\ out[i].connector = BranchGlyph /\ out[j].connector = BranchGlyph
          /\ out[k].connector = LastGlyph /\ out[k].suffix = DirSuffix

\* ------------------------------------------------------------------ C4

IsUpperHexDigit(c) == c \in 48..57 \/ c \in 65..70

RECURSIVE HexValue(_)
HexValue(digits) ==
    IF digits = <<>> THEN 0
    ELSE LET c == digits[Len(digits)]
         IN  16 * HexValue(SubSeq(digits, 1, Len(digits) - 1))
             + (IF c <= 57 THEN c - 48 ELSE c - 55)

\* t is "U+" followed by the upper-case hexadecimal digits of c, at least
\* four of them and no more than four unless c needs them.
IsTokenOf(t, c) ==
    /\ Len(t) >= 6
    /\ t[1] = 85 /\ t[2] = 43
    /\ LET digits == SubSeq(t, 3, Len(t))
       IN  /\ \A k \in 1..Len(digits) : IsUpperHexDigit(digits[k])
           /\ HexValue(digits) = c
           /\ Len(digits) = 4 \/ digits[1] # 48

\* The pieces of s between occurrences of sep.
RECURSIVE SplitAt(_, _)
SplitAt(s, sep) ==
    LET cut == {k \in 1..Len(s) : s[k] = sep}
    IN  IF cut = {} THEN <<s>>
        ELSE LET k == CHOOSE x \in cut : \A y \in cut : x <= y
             IN  <<SubSeq(s, 1, k - 1)>> \o SplitAt(SubSeq(s, k + 1, Len(s)), sep)

\* body is the quoted name, a space, and a bracketed list of one token per
\* character of the name, in order, separated by single spaces.
IsAnnotationOf(body, name) ==
    LET q == Repr(name)
    IN  /\ Len(body) >= Len(q) + 3
        /\ SubSeq(body, 1, Len(q)) = q
        /\ body[Len(q) + 1] = 32 /\ body[Len(q) + 2] = 91
        /\ body[Len(body)] = 93
        /\ LET toks == SplitAt(SubSeq(body, Len(q) + 3, Len(body) - 1), 32)
           IN  /\ Len(toks) = Len(name)
               /\ \A k \in 1..Len(name) : IsTokenOf(toks[k], name[k])

\* C4: an entry whose name holds a character above 127 or below 32 is
\* printed as the quoted name and one U+XXXX token per character, in order,
\* upper-case hexadecimal padded to four digits; any other name, one holding
\* character 127 included, is printed bare.
C4_AnnotatedIffSpecial ==
    \A k \in EntryIdx :
        LET name == LastName(out[k].path)
        IN  IF \E c \in 1..Len(name) : name[c] > 127 \/ name[c] < 32
            THEN IsAnnotationOf(out[k].body, name)
            ELSE out[k].body = name

\* A printed two-character name: an ordinary character and one whose
\* codepoint needs five hexadecimal digits.
C4_Witness ==
    \E k \in EntryIdx :
        /\ out[k].path = <<(<<97, 128193>>)>>
        /\ Len(out[k].body) > 2

\* ------------------------------------------------------------------ C5

\* C5: a directory whose listing is denied gets exactly one line, the text
\* "[Permission Denied]" after the prefix its children would have had; none
\* of its children is printed; the denial alone never ends the run; and once
\* the run has returned, every unfiltered sibling of the directory and of
\* its ancestors has been printed.
C5_DeniedDirectoryOneLineNoChildren ==
    /\ \A k \in DeniedIdx :
          LET d == out[k].path
          IN  /\ \A m \in DeniedIdx : out[m].path = d => m = k
              /\ \A m \in EntryIdx : ParentPath(out[m].path) # d
              /\ IF d = <<>> THEN Render(out[k]) = PermissionDeniedText
                 ELSE \E m \in EntryIdx :
                         /\ m < k /\ out[m].path = d
                         /\ Render(out[k]) = ChildPrefix(out[m]) \o PermissionDeniedText
    /\ (DeniedIdx # {} /\ ~exc.raised) => pc # "crashed"
    /\ Completed =>
          \A d \in DeniedPaths, q \in AllPaths :
              (IsProperPrefixOf(ParentPath(q), d) /\ ~OmittedName(LastName(q)))
                  => Printed(q)

\* A finished run in which a directory below the root was denied, holds an
\* entry, and a sibling directory was printed after the denial.
C5_Witness ==
    /\ Completed
    /\ \E k \in DeniedIdx, m \in EntryIdx, q \in AllPaths :
          /\ Len(out[k].path) = 1
          /\ ParentPath(q) = out[k].path /\ ~OmittedName(LastName(q))
          /\ m > k /\ Len(out[m].path) = 1 /\ out[m].suffix = DirSuffix

\* ------------------------------------------------------------------ C6

\* An entry the traversal came to: its directory was printed (or is the
\* root) and was not denied listing.
CameTo(q) ==
    /\ ParentPath(q) = <<>> \/ Printed(ParentPath(q))
    /\ ParentPath(q) \notin DeniedPaths

\* At every level no printed entry has a name the root's toggles omit, so
\* nothing below an omitted directory is printed.
NothingOmittedIsPrinted ==
    \A k \in EntryIdx : NoOmittedComponent(out[k].path)

\* C6 (as stated): nothing the root's toggles omit is printed at any level;
\* and once the run has returned, with ignore_hidden off every entry whose
\* name starts with '.' is printed, and with ignore_git off every entry
\* named '.git' is printed.
C6_ToggleOffMeansPrinted ==
    /\ NothingOmittedIsPrinted
    /\ Completed =>
          \A q \in AllPaths :
              CameTo(q) =>
                 /\ (~args.ignore_hidden /\ LastName(q)[1] = 46) => Printed(q)
                 /\ (~args.ignore_git /\ LastName(q) = GitName) => Printed(q)

\* C6 (amended): nothing the root's toggles omit is printed at any level;
\* and once the run has returned, an entry the traversal came to is printed
\* exactly when neither toggle omits it: an entry named '.git' is omitted
\* while either toggle is on.
C6_PrintedIffNoToggleOmits ==
    /\ NothingOmittedIsPrinted
    /\ Completed =>
          \A q \in AllPaths :
              CameTo(q) => (Printed(q) = ~OmittedName(LastName(q)))

\* A finished run with ignore_hidden off and ignore_git on: a dot-entry is
\* printed inside a printed dot-directory, and a '.git' entry is omitted.
C6_Witness ==
    /\ Completed /\ ~args.ignore_hidden /\ args.ignore_git
    /\ \E k \in EntryIdx :
          /\ Len(out[k].path) = 2
          /\ out[k].path[1][1] = 46 /\ out[k].path[2][1] = 46
    /\ \E q \in AllPaths : CameTo(q) /\ LastName(q) = GitName /\ ~Printed(q)

\* ------------------------------------------------------------------ C7

\* C7: once a listing has raised an error other than a permission error,
\* every frame is gone, the program has ended abnormally, and the step that
\* raised it and every later step print nothing.
C7_OtherErrorsEndTheRun ==
    [][exc'.raised => (pc' = "crashed" /\ stack' = <<>> /\ out' = out)]_vars

\* main() was running, entries had been printed, and the listing of a
\* directory below the root raised.
C7_Witness ==
    /\ exc.raised /\ Len(exc.at) >= 1
    /\ caller = "main"
    /\ EntryIdx # {}

\* ------------------------------------------------------------------ C8

\* A line that belongs to the subtree of the directory p.
InSubtree(p, line) ==
    /\ line.kind \in {"entry", "denied"}
    /\ IF line.kind = "entry" THEN IsProperPrefixOf(p, line.path)
       ELSE IsPrefixOf(p, line.path)

\* C8: the lines of a directory's subtree follow its own line with no other
\* line between them and none before it; a child's prefix is its parent
\* line's prefix extended by four spaces when the parent was last and by
\* the bar extension otherwise; so an entry with d directories between it
\* and the root has a prefix of 4*d characters.
C8_PreorderAndPrefix ==
    \A i \in EntryIdx :
        LET p == out[i].path
        IN  /\ Len(out[i].prefix) = 4 * (Len(p) - 1)
            /\ IF Len(p) = 1 THEN out[i].prefix = <<>>
               ELSE \E m \in EntryIdx :
                       /\ m < i /\ out[m].path = ParentPath(p)
                       /\ out[i].prefix = ChildPrefix(out[m])
            /\ \A j \in 1..Len(out) :
                  /\ j < i => ~InSubtree(p, out[j])
                  /\ (j > i /\ InSubtree(p, out[j])) =>
                        \A k \in (i + 1)..j : InSubtree(p, out[k])

\* A directory that is not the last of its listing has a child printed under
\* the bar extension, and its next sibling is printed after that child.
C8_Witness ==
    \E i, j, k \in EntryIdx :
        /\ i < j /\ j < k
        /\ ParentPath(out[j].path) = out[i].path
        /\ out[j].prefix = BarExtension
        /\ Len(out[k].path) = 1

\* ------------------------------------------------------------------ C9

\* The number of directories on the longest chain of nested directories of
\* the filesystem, the root and links to directories counted.
DirectoryDepth ==
    LET deep == {Len(PathOf(fs, n)) : n \in {m \in Nodes(fs) : fs[m].kind # "file"}}
    IN  1 + (IF deep = {} THEN 0 ELSE CHOOSE x \in deep : \A y \in deep : y <= x)

\* C9: the recursion is never deeper than the directory depth of the
\* filesystem, also when a link leads back to an ancestor.
C9_RecursionDepthBounded == Len(stack) <= DirectoryDepth

\* ----------------------------------------------------------------- C10

\* C10: for every printed entry, being placed in the directory group, being
\* printed with the trailing '/', and being recursed into go together.
C10_DirectoryStatusAgrees ==
    \A k \in EntryIdx :
        /\ (out[k].group = "dirs") = (out[k].suffix = DirSuffix)
        /\ (out[k].suffix = DirSuffix) = out[k].recursed

====
